---------------------------- MODULE Spec2Model ----------------------------
(***************************************************************************)
(* Model of AIGym_Modified (src/AIGym_Modified.py): the per-person         *)
(* exercise classifier and repetition counter driven frame by frame by     *)
(* process().                                                              *)
(*                                                                         *)
(* Python lists are 0-indexed, TLA+ sequences 1-indexed: the entry of      *)
(* person_id p lives at index p + 1 of each per-person sequence.           *)
(* Python None is the string "None".  A keypoint coordinate is a float:    *)
(* the set of the numbers it is, {n} for the number n and {} for nan, so   *)
(* that arithmetic on a nan gives a nan and every comparison with a nan is *)
(* False, as in IEEE arithmetic (Add, Sub, Half, Abs, Lt).                 *)
(***************************************************************************)
EXTENDS Integers, Sequences, FiniteSets, TLC

\* ------------------------------------------------------------------ bounds
\* Repetitions are followed until MaxReps of them have been counted, over
\* all persons and both exercises: a frame that would count one more is not
\* offered.
MaxReps == 2
\* Keypoint coordinates of the classifier's input domain are the even
\* numbers 0, 2, .., 2 * MaxHalfCoord (so that every midpoint is an integer).
MaxHalfCoord == 1

\* ------------------------------------------------------------ value domains
None == "None"
\* A float that is the number n, and numpy's nan.
Num(n) == {n}
NaN == {}

\* The values annotator.estimate_pose_angle returns here: numbers below, on,
\* between, on and above the default thresholds 90 and 160 (the landmarks
\* the angle is computed from are numeric).
Angles == {80, 90, 120, 160, 170}

\* (down_angle, up_angle) pairs a tracker is constructed with: the defaults,
\* and an inverted pair (the constructor checks nothing).
Configs == {<<90, 160>>, <<160, 90>>}

\* The ids the tracker hands out.
TrackIds == {0, 1}

\* A frame's boxes.id: a list of pairwise distinct track ids; the empty list
\* stands for boxes.id being None.
Frames ==
  {f \in UNION {[1..n -> TrackIds] : n \in 0..Cardinality(TrackIds)} :
     \A a, b \in DOMAIN f : a # b => f[a] # f[b]}

\* --------------------------------------------------------- float arithmetic
Add(a, b) == {x + y : x \in a, y \in b}
Sub(a, b) == {x - y : x \in a, y \in b}
Half(a) == {x \div 2 : x \in a}
Abs(a) == {IF x < 0 THEN 0 - x ELSE x : x \in a}
\* a < b on floats: False as soon as one side is nan.
Lt(a, b) == \E x \in a, y \in b : x < y

\* ---------------------------------------------------------------- keypoints
\* A keypoint array is a function from row index 0..n-1 to a row <<x, y, conf>>
\* (kpts[k][0] of the code is row[1] here, kpts[k][1] is row[2]).
Coords == {Num(2 * c) : c \in 0..MaxHalfCoord} \cup {NaN}
Points == {<<x, y, Num(1)>> : x \in Coords, y \in Coords}
Pt(x, y) == <<Num(x), Num(y), Num(1)>>
Origin == Pt(0, 0)

MakeKpts(n, s5, s6, h11, h12) ==
  [k \in 0..(n - 1) |->
     IF k = 5 THEN s5 ELSE IF k = 6 THEN s6
     ELSE IF k = 11 THEN h11 ELSE IF k = 12 THEN h12 ELSE Origin]

\* The classifier's whole input domain: every 17-row array over Points in the
\* four rows it reads, and arrays too short to hold them.
AllKpts ==
  {MakeKpts(17, s5, s6, h11, h12) : s5 \in Points, s6 \in Points,
                                    h11 \in Points, h12 \in Points}
  \cup {MakeKpts(n, Origin, Origin, Origin, Origin) : n \in {0, 6, 12}}

\* The keypoint arrays the frames of the tracker carry: an upright body
\* (dx = 0 < dy = 4), a body with dx = dy = 2 and an array with too few rows.
FrameKpts ==
  { MakeKpts(17, Pt(2, 0), Pt(2, 0), Pt(2, 4), Pt(2, 4)),
    MakeKpts(17, Pt(0, 0), Pt(0, 0), Pt(2, 2), Pt(2, 2)),
    MakeKpts(6, Origin, Origin, Origin, Origin) }

\* ------------------------------------------------------------------- state
VARIABLES
  squat_count, pushup_count, angle, stage, exercise,  \* self.<list>
  up_angle, down_angle,                               \* self.<threshold>
  track_ids,      \* self.track_ids: the ids of the frame last extracted
  i,              \* process: index of the next entry of track_ids
  pc,             \* "idle" | "loop" (inside process) | "detect" | "detected"
  kpts,           \* detect_exercise: its argument, when called on its own
  exercise_loc,   \* process: local `exercise` of the last loop iteration
  ud_edges,       \* history: per person, number of up -> down stage changes
  blocked,        \* history: per person, a repetition was counted and no
                  \*          frame above up_angle has been seen since
  seen,           \* history: the ids that have appeared in a frame
  flipped,        \* history: the last iteration counted a repetition for
                  \*          an exercise other than the one of the person's
                  \*          frame before, which had set its stage to "up"
  angle_loc       \* process: the value estimate_pose_angle returned in the
                  \*          last loop iteration (None if it was not called)

registry == <<squat_count, pushup_count, angle, stage, exercise>>
vars == <<squat_count, pushup_count, angle, stage, exercise, up_angle,
          down_angle, track_ids, i, pc, kpts, exercise_loc, ud_edges,
          blocked, seen, flipped, angle_loc>>

history == <<ud_edges, blocked, seen, flipped>>

\* self, as the record the operations below take and return.
Self ==
  [squat_count |-> squat_count, pushup_count |-> pushup_count,
   angle |-> angle, stage |-> stage, exercise |-> exercise]

\* ------------------------------------------------------------ detect_exercise
\* kpts[r] raises IndexError when row r does not exist; the bare except turns
\* every exception into None.
Raises(k) == \E r \in {5, 6, 11, 12} : r \notin DOMAIN k

\* detect_exercise with the comparison delta_x <= delta_y.
detect_exercise_le(k) ==
  IF Raises(k) THEN None
  ELSE LET delta_y == Abs(Sub(Half(Add(k[5][2], k[6][2])),
                              Half(Add(k[11][2], k[12][2]))))
           delta_x == Abs(Sub(Half(Add(k[5][1], k[6][1])),
                              Half(Add(k[11][1], k[12][1]))))
       IN  IF \E x \in delta_x, y \in delta_y : x <= y
           THEN "squat" ELSE "pushup"

detect_exercise(k) ==
  IF Raises(k) THEN None
  ELSE LET shoulder_y == Half(Add(k[5][2], k[6][2]))
           hip_y == Half(Add(k[11][2], k[12][2]))
           delta_y == Abs(Sub(shoulder_y, hip_y))
           delta_x == Abs(Sub(Half(Add(k[5][1], k[6][1])),
                              Half(Add(k[11][1], k[12][1]))))
       IN  IF Lt(delta_x, delta_y) THEN "squat" ELSE "pushup"

\* ---------------------------------------------------------- initialize_person
\* The five lists of a registry holding n default entries.
Fresh(n) ==
  [squat_count |-> [k \in 1..n |-> 0], pushup_count |-> [k \in 1..n |-> 0],
   angle |-> [k \in 1..n |-> 0], stage |-> [k \in 1..n |-> "-"],
   exercise |-> [k \in 1..n |-> None]]

\* initialize_person allocating new lists of the needed length when the
\* lists are too short, instead of appending to them.
initialize_person_realloc(self, person_id) ==
  IF Len(self.squat_count) <= person_id THEN Fresh(person_id + 1) ELSE self

\* initialize_person giving the person its default entry at every call, not
\* only when the entry is missing.
initialize_person_reset(self, person_id) ==
  LET grown == IF Len(self.squat_count) <= person_id
               THEN LET more == Fresh(person_id + 1 - Len(self.squat_count))
                    IN  [f \in DOMAIN self |-> self[f] \o more[f]]
               ELSE self
      p == person_id + 1
  IN  [grown EXCEPT !.squat_count[p] = 0, !.pushup_count[p] = 0,
                    !.angle[p] = 0, !.stage[p] = "-", !.exercise[p] = None]

\* initialize_person with len(self.squat_count) <= person_id + 1 as the test
\* of its loop.
initialize_person_extra(self, person_id) ==
  IF Len(self.squat_count) <= person_id + 1
  THEN LET more == Fresh(person_id + 2 - Len(self.squat_count))
       IN  [f \in DOMAIN self |-> self[f] \o more[f]]
  ELSE self

\* while len(self.squat_count) <= person_id: append the defaults to all five.
initialize_person(self, person_id) ==
  IF Len(self.squat_count) <= person_id
  THEN LET more == Fresh(person_id + 1 - Len(self.squat_count))
       IN  [squat_count |-> self.squat_count \o more.squat_count,
            pushup_count |-> self.pushup_count \o more.pushup_count,
            angle |-> self.angle \o more.angle,
            stage |-> self.stage \o more.stage,
            exercise |-> self.exercise \o more.exercise]
  ELSE self

\* ----------------------------------------------------- update_stage_and_count
\* The counter of ex, one higher.
Count(self, p, ex) ==
  IF ex = "squat" THEN [self EXCEPT !.squat_count[p] = @ + 1]
  ELSE IF ex = "pushup" THEN [self EXCEPT !.pushup_count[p] = @ + 1]
  ELSE self

\* update_stage_and_count with angle <= self.down_angle in its first test.
update_stage_and_count_le(self, person_id, ex, ang) ==
  LET p == person_id + 1 IN
  IF ang <= down_angle
  THEN [(IF self.stage[p] = "up" THEN Count(self, p, ex) ELSE self)
          EXCEPT !.stage[p] = "down"]
  ELSE IF ang > up_angle THEN [self EXCEPT !.stage[p] = "up"] ELSE self

\* update_stage_and_count setting the stage to "down" only in the else of
\* the test for "up": a counted repetition leaves the stage at "up".
update_stage_and_count_stay(self, person_id, ex, ang) ==
  LET p == person_id + 1 IN
  IF ang < down_angle
  THEN IF self.stage[p] = "up" THEN Count(self, p, ex)
       ELSE [self EXCEPT !.stage[p] = "down"]
  ELSE IF ang > up_angle THEN [self EXCEPT !.stage[p] = "up"] ELSE self

\* update_stage_and_count counting whenever the stage is not "down".
update_stage_and_count_any(self, person_id, ex, ang) ==
  LET p == person_id + 1 IN
  IF ang < down_angle
  THEN [(IF self.stage[p] # "down" THEN Count(self, p, ex) ELSE self)
          EXCEPT !.stage[p] = "down"]
  ELSE IF ang > up_angle THEN [self EXCEPT !.stage[p] = "up"] ELSE self

\* update_stage_and_count entering "up" only from "down".
update_stage_and_count_armed(self, person_id, ex, ang) ==
  LET p == person_id + 1 IN
  IF ang < down_angle
  THEN [(IF self.stage[p] = "up" THEN Count(self, p, ex) ELSE self)
          EXCEPT !.stage[p] = "down"]
  ELSE IF ang > up_angle /\ self.stage[p] = "down"
       THEN [self EXCEPT !.stage[p] = "up"] ELSE self

\* update_stage_and_count with a plain else in place of the elif.
update_stage_and_count_else(self, person_id, ex, ang) ==
  LET p == person_id + 1 IN
  IF ang < down_angle
  THEN [(IF self.stage[p] = "up" THEN Count(self, p, ex) ELSE self)
          EXCEPT !.stage[p] = "down"]
  ELSE [self EXCEPT !.stage[p] = "up"]

\* update_stage_and_count setting the stage of every person to "up".
update_stage_and_count_all(self, person_id, ex, ang) ==
  LET p == person_id + 1 IN
  IF ang < down_angle
  THEN [(IF self.stage[p] = "up" THEN Count(self, p, ex) ELSE self)
          EXCEPT !.stage[p] = "down"]
  ELSE IF ang > up_angle
       THEN [self EXCEPT !.stage = [q \in DOMAIN self.stage |-> "up"]]
       ELSE self

update_stage_and_count(self, person_id, ex, ang) ==
  LET p == person_id + 1 IN
  IF ang < down_angle
  THEN LET counted ==
             IF self.stage[p] = "up"
             THEN IF ex = "squat"
                  THEN [self EXCEPT !.squat_count[p] = @ + 1]
                  ELSE IF ex = "pushup"
                       THEN [self EXCEPT !.pushup_count[p] = @ + 1]
                       ELSE self
             ELSE self
       IN  [counted EXCEPT !.stage[p] = "down"]
  ELSE IF ang > up_angle
       THEN [self EXCEPT !.stage[p] = "up"]
       ELSE self

\* ------------------------------------------------------------------ process
\* The loop body with self.exercise[track_id] = exercise placed before the
\* test for None.
process_iteration_store(self, track_id, k, a) ==
  LET s0 == initialize_person(self, track_id)
      ex == detect_exercise(k)
      s1 == [s0 EXCEPT !.exercise[track_id + 1] = ex]
  IN  IF ex = None
      THEN s1
      ELSE update_stage_and_count([s1 EXCEPT !.angle[track_id + 1] = a],
                                  track_id, ex, a)

\* The loop body starting the stage of the person again at "-" when the
\* detected exercise is not the one its entry holds.
process_iteration_switch(self, track_id, k, a) ==
  LET s0 == initialize_person(self, track_id)
      ex == detect_exercise(k)
      p == track_id + 1
  IN  IF ex = None
      THEN s0
      ELSE LET s1 == [s0 EXCEPT
                        !.stage[p] = IF s0.exercise[p] \notin {None, ex}
                                     THEN "-" ELSE @,
                        !.exercise[p] = ex,
                        !.angle[p] = a]
           IN  update_stage_and_count(s1, track_id, ex, s1.angle[p])

\* The loop body storing the detected exercise only in an entry that holds
\* no exercise yet.
process_iteration_first(self, track_id, k, a) ==
  LET s0 == initialize_person(self, track_id)
      ex == detect_exercise(k)
      p == track_id + 1
  IN  IF ex = None
      THEN s0
      ELSE LET s1 == [s0 EXCEPT
                        !.exercise[p] = IF @ = None THEN ex ELSE @,
                        !.angle[p] = a]
           IN  update_stage_and_count(s1, track_id, ex, s1.angle[p])

\* The loop body calling update_stage_and_count with the exercise the entry
\* held before this frame (the detected one when it held none).
process_iteration_prev(self, track_id, k, a) ==
  LET s0 == initialize_person(self, track_id)
      ex == detect_exercise(k)
      before == s0.exercise[track_id + 1]
  IN  IF ex = None
      THEN s0
      ELSE LET s1 == [s0 EXCEPT !.exercise[track_id + 1] = ex,
                                !.angle[track_id + 1] = a]
           IN  update_stage_and_count(s1, track_id,
                                      IF before = None THEN ex ELSE before, a)

\* The body of one iteration of the loop over the frame's track ids, for the
\* keypoints k of the person and the angle a that estimate_pose_angle returns
\* for the three landmarks of the detected exercise.
process_iteration(self, track_id, k, a) ==
  LET s0 == initialize_person(self, track_id)
      ex == detect_exercise(k)
  IN  IF ex = None
      THEN s0
      ELSE LET s1 == [s0 EXCEPT !.exercise[track_id + 1] = ex,
                                !.angle[track_id + 1] = a]
           IN  update_stage_and_count(s1, track_id, ex, s1.angle[track_id + 1])

RECURSIVE Sum(_)
Sum(seq) == IF seq = <<>> THEN 0 ELSE Head(seq) + Sum(Tail(seq))

WithinReps(self) == Sum(self.squat_count) + Sum(self.pushup_count) <= MaxReps

\* The SolutionResults that process returns: its lists are the lists of self
\* (the same objects), its total_tracks is len(self.track_ids).
workout_count == [squat |-> squat_count, pushup |-> pushup_count]
\* A workout_stage holding the stages of the persons of the frame only.
workout_stage_frame == [n \in DOMAIN track_ids |-> stage[track_ids[n] + 1]]
workout_stage == stage
workout_angle == angle
\* A total_tracks that is the number of entries of the registry.
total_tracks_known == Len(squat_count)
total_tracks == Len(track_ids)

Init ==
  /\ squat_count = <<>>
  /\ pushup_count = <<>>
  /\ angle = <<>>
  /\ stage = <<>>
  /\ exercise = <<>>
  /\ \E c \in Configs : down_angle = c[1] /\ up_angle = c[2]
  /\ track_ids = <<>>
  /\ i = 1
  /\ pc = "idle"
  /\ kpts = MakeKpts(0, Origin, Origin, Origin, Origin)
  /\ exercise_loc = None
  /\ ud_edges = <<>>
  /\ blocked = <<>>
  /\ seen = {}
  /\ flipped = FALSE
  /\ angle_loc = None

\* self.extract_tracks(im0); tracks = self.tracks[0]
extract_tracks ==
  /\ pc = "idle"
  /\ track_ids' \in Frames
  /\ i' = 1
  /\ pc' = "loop"
  /\ UNCHANGED <<registry, up_angle, down_angle, kpts, exercise_loc,
                 angle_loc, history>>

\* One iteration of the loop of process, on the person track_ids[i].
process_track ==
  /\ pc = "loop"
  /\ i <= Len(track_ids)
  /\ \E k \in FrameKpts, a \in Angles :
       \E s0 \in {initialize_person(Self, track_ids[i])},
          s2 \in {process_iteration(Self, track_ids[i], k, a)},
          ex \in {detect_exercise(k)} :
         LET p == track_ids[i] + 1
             grew == s2.squat_count[p] + s2.pushup_count[p]
                       > s0.squat_count[p] + s0.pushup_count[p]
         IN  /\ WithinReps(s2)
             /\ exercise_loc' = ex
             /\ squat_count' = s2.squat_count
             /\ pushup_count' = s2.pushup_count
             /\ angle' = s2.angle
             /\ stage' = s2.stage
             /\ exercise' = s2.exercise
             /\ ud_edges' =
                  [q \in 1..Len(s2.stage) |->
                     (IF q <= Len(ud_edges) THEN ud_edges[q] ELSE 0)
                     + (IF q = p /\ s0.stage[p] = "up" /\ s2.stage[p] = "down"
                        THEN 1 ELSE 0)]
             /\ blocked' =
                  [q \in 1..Len(s2.stage) |->
                     IF q = p /\ grew THEN TRUE
                     ELSE IF q = p /\ ex # None /\ a > up_angle THEN FALSE
                     ELSE IF q <= Len(blocked) THEN blocked[q] ELSE FALSE]
             /\ seen' = seen \cup {track_ids[i]}
             /\ flipped' = /\ grew /\ p <= Len(angle)
                            /\ angle[p] > up_angle /\ exercise[p] # ex
             /\ angle_loc' = IF ex = None THEN None ELSE a
  /\ i' = i + 1
  /\ UNCHANGED <<up_angle, down_angle, track_ids, pc, kpts>>

\* The loop is over (or boxes.id is None): process returns its
\* SolutionResults, whose count, stage and angle entries are the lists of
\* self themselves and whose total_tracks is len(self.track_ids).
process_return ==
  /\ pc = "loop"
  /\ i > Len(track_ids)
  /\ pc' = "idle"
  /\ exercise_loc' = None
  /\ angle_loc' = None
  /\ flipped' = FALSE
  /\ UNCHANGED <<registry, up_angle, down_angle, track_ids, i, kpts,
                 ud_edges, blocked, seen>>

Next == extract_tracks \/ process_track \/ process_return

Spec == Init /\ [][Next]_vars

\* ------------------------------------------- detect_exercise, on its own
\* The classifier called on every keypoint array of its input domain.
InitClassify ==
  /\ squat_count = <<>>
  /\ pushup_count = <<>>
  /\ angle = <<>>
  /\ stage = <<>>
  /\ exercise = <<>>
  /\ down_angle = 90
  /\ up_angle = 160
  /\ track_ids = <<>>
  /\ i = 1
  /\ pc = "detect"
  /\ kpts \in AllKpts
  /\ exercise_loc = None
  /\ ud_edges = <<>>
  /\ blocked = <<>>
  /\ seen = {}
  /\ flipped = FALSE
  /\ angle_loc = None

classify ==
  /\ pc = "detect"
  /\ exercise_loc' = detect_exercise(kpts)
  /\ pc' = "detected"
  /\ UNCHANGED <<registry, up_angle, down_angle, track_ids, i, kpts,
                 angle_loc, history>>

NextClassify == classify

SpecClassify == InitClassify /\ [][NextClassify]_vars

\* ================================================================= claims
\* A step of process_track: one loop iteration, on person Cur (an index of
\* the per-person sequences).
IterStep == pc = "loop" /\ i <= Len(track_ids) /\ i' = i + 1
Cur == track_ids[i] + 1
\* The person of the iteration just made.
Last == track_ids[i - 1] + 1
AfterIter == pc = "loop" /\ i > 1
Known(p) == p \in 1..Len(stage)
\* The fields of person p before a step, a person without an entry having
\* the defaults initialize_person gives it.
StageOf(p) == IF Known(p) THEN stage[p] ELSE "-"
SquatOf(p) == IF Known(p) THEN squat_count[p] ELSE 0
PushupOf(p) == IF Known(p) THEN pushup_count[p] ELSE 0
DefaultConfig == down_angle = 90 /\ up_angle = 160

\* C1: for every identity, squat_count and pushup_count never decrease from
\* one step to the next, and no entry is dropped.
C1_CountsNonDecreasing ==
  [][/\ Len(squat_count') >= Len(squat_count)
     /\ Len(pushup_count') >= Len(pushup_count)
     /\ \A p \in 1..Len(squat_count) :
          /\ squat_count'[p] >= squat_count[p]
          /\ pushup_count'[p] >= pushup_count[p]]_vars

\* Person 0 has counted a squat and a push-up, and the frame being processed
\* has just introduced person 1.
C1_Witness ==
  /\ Len(squat_count) = 2
  /\ squat_count[1] = 1 /\ pushup_count[1] = 1
  /\ AfterIter /\ Last = 2 /\ stage[2] = "-" /\ exercise[2] = None

\* C2: an iteration with a successful classification changes stage and
\* counters as the reference transition function says, for the exercise
\* detected and the angle computed in that iteration.
C2_UpdateIsReference ==
  [][IterStep /\ exercise_loc' # None =>
       LET p == Cur
           a == angle'[p]
           ex == exercise_loc'
           inc == IF StageOf(p) = "up" THEN 1 ELSE 0
       IN  /\ a < down_angle =>
                /\ stage'[p] = "down"
                /\ squat_count'[p] =
                     SquatOf(p) + (IF ex = "squat" THEN inc ELSE 0)
                /\ pushup_count'[p] =
                     PushupOf(p) + (IF ex = "pushup" THEN inc ELSE 0)
           /\ ~(a < down_angle) /\ a > up_angle =>
                /\ stage'[p] = "up"
                /\ squat_count'[p] = SquatOf(p)
                /\ pushup_count'[p] = PushupOf(p)
           /\ ~(a < down_angle) /\ ~(a > up_angle) =>
                /\ down_angle <= a /\ a <= up_angle
                /\ stage'[p] = StageOf(p)
                /\ squat_count'[p] = SquatOf(p)
                /\ pushup_count'[p] = PushupOf(p)]_vars

\* A push-up has just been counted on the up -> down edge, under the default
\* thresholds.
C2_Witness ==
  /\ DefaultConfig /\ AfterIter /\ exercise_loc = "pushup"
  /\ angle[Last] = 80 /\ stage[Last] = "down"
  /\ pushup_count[Last] = 1 /\ squat_count[Last] = 0

\* C3: once a counter of an identity has been incremented, no counter of
\* that identity is incremented again before a frame of that identity with
\* an angle above up_angle has been processed.
C3_NoDoubleCount ==
  [][IterStep /\ Known(Cur) /\ blocked[Cur] =>
       squat_count'[Cur] + pushup_count'[Cur]
         = squat_count[Cur] + pushup_count[Cur]]_vars

\* A second repetition has been counted, after frames below down_angle and
\* inside the band that followed the first one.
C3_Witness ==
  \E p \in 1..Len(stage) :
     /\ blocked[p] /\ squat_count[p] + pushup_count[p] = 2
     /\ AfterIter /\ Last = p /\ exercise_loc # None /\ angle[p] = 120

\* C4: an iteration raises squat_count + pushup_count of its identity by 1
\* when the stage goes from up to down in it and by 0 otherwise, never both
\* counters at once; the sum of an identity's two counts is the number of
\* up -> down stage changes it has made.
C4_CountOnlyOnEdge ==
  /\ [](\A p \in 1..Len(stage) :
          squat_count[p] + pushup_count[p] = ud_edges[p])
  /\ [][IterStep =>
          LET p == Cur
              edge == StageOf(p) = "up" /\ stage'[p] = "down"
          IN  /\ squat_count'[p] + pushup_count'[p]
                   = SquatOf(p) + PushupOf(p) + (IF edge THEN 1 ELSE 0)
              /\ ~(squat_count'[p] > SquatOf(p) /\ pushup_count'[p] > PushupOf(p))
              /\ \A q \in 1..Len(stage) :
                   q # p => /\ squat_count'[q] = squat_count[q]
                            /\ pushup_count'[q] = pushup_count[q]]_vars

\* One person dropped below down_angle from Neutral and counted nothing,
\* the other one has a counted repetition.
C4_Witness ==
  /\ Len(stage) = 2
  /\ stage[1] = "down" /\ squat_count[1] + pushup_count[1] = 0
  /\ ud_edges[1] = 0
  /\ stage[2] = "down" /\ squat_count[2] = 1 /\ ud_edges[2] = 1

\* Person 0 has no entry or the default one; person 0's entry as it is
\* after a frame of the scenario.
C5_Fresh ==
  Known(1) => /\ stage[1] = "-" /\ squat_count[1] = 0 /\ pushup_count[1] = 0
              /\ exercise[1] = None /\ angle[1] = 0
C5_After(st, sq, ang) ==
  /\ Known(1) /\ stage[1] = st /\ squat_count[1] = sq /\ pushup_count[1] = 0
  /\ exercise[1] = "squat" /\ angle[1] = ang

\* C5: with thresholds 90 and 160, a fresh identity 0 that gets squat frames
\* with angles 170, 80, 170 has stage up, down, up and squat_count 0, 1, 1
\* after them, pushup_count staying 0. Person 0's entry after a frame is all
\* the next frame depends on, so the scenario is three steps, each starting
\* where the one before ends.
C5_HysteresisScenario ==
  [][DefaultConfig /\ IterStep /\ Cur = 1 /\ exercise_loc' = "squat" =>
       /\ C5_Fresh /\ angle'[1] = 170 => C5_After("up", 0, 170)'
       /\ C5_After("up", 0, 170) /\ angle'[1] = 80 => C5_After("down", 1, 80)'
       /\ C5_After("down", 1, 80) /\ angle'[1] = 170 => C5_After("up", 1, 170)']_vars

\* The state at the end of the scenario, right after its third frame.
C5_Witness ==
  /\ DefaultConfig /\ AfterIter /\ Last = 1 /\ exercise_loc = "squat"
  /\ C5_After("up", 1, 170)

\* C6: a frame whose angle is strictly between down_angle and up_angle
\* leaves stage, squat_count and pushup_count of its identity as they were,
\* whatever exercise it is classified as.
C6_BandIdempotent ==
  [][IterStep /\ exercise_loc' # None
       /\ down_angle < angle'[Cur] /\ angle'[Cur] < up_angle =>
       /\ stage'[Cur] = StageOf(Cur)
       /\ squat_count'[Cur] = SquatOf(Cur)
       /\ pushup_count'[Cur] = PushupOf(Cur)]_vars

\* A frame inside the band has just been processed for a person that is up
\* and has a repetition counted.
C6_Witness ==
  /\ DefaultConfig /\ AfterIter /\ exercise_loc # None
  /\ angle[Last] = 120 /\ stage[Last] = "up"
  /\ squat_count[Last] + pushup_count[Last] >= 1

\* C7: a stage that is up or down is up or down after every step.
C7_NeverBackToNeutral ==
  [][\A p \in 1..Len(stage) :
       stage[p] # "-" => /\ Len(stage') >= p
                         /\ stage'[p] \in {"up", "down"}]_vars

\* A person that is up has just been through a frame whose classification
\* failed, in a frame that also held the other person.
C7_Witness ==
  /\ AfterIter /\ exercise_loc = None /\ Len(track_ids) = 2
  /\ stage[Last] = "up"

\* C8: an iteration on a known identity whose classification returns None
\* changes no field of that identity (nor of any other), and the loop goes on
\* to the next identity of the frame.
C8_FailureMutatesNothing ==
  [][IterStep /\ Known(Cur) /\ exercise_loc' = None =>
       /\ UNCHANGED registry
       /\ pc' = "loop" /\ i' = i + 1 /\ track_ids' = track_ids]_vars

\* The classification of a person with a counted squat has just failed, and
\* the frame has one more identity to process.
C8_Witness ==
  /\ AfterIter /\ exercise_loc = None /\ i <= Len(track_ids)
  /\ exercise[Last] = "squat" /\ squat_count[Last] = 1

\* ---- the classifier
\* The rows detect_exercise reads exist and hold numbers.
WellFormed(k) ==
  /\ ~Raises(k)
  /\ \A r \in {5, 6, 11, 12} : k[r][1] # NaN /\ k[r][2] # NaN
\* Twice dx and twice dy of well-formed keypoints, from the sums of the
\* coordinates.
Val(a) == CHOOSE x \in a : TRUE
Dx2(k) ==
  LET d == (Val(k[5][1]) + Val(k[6][1])) - (Val(k[11][1]) + Val(k[12][1]))
  IN  IF d < 0 THEN 0 - d ELSE d
Dy2(k) ==
  LET d == (Val(k[5][2]) + Val(k[6][2])) - (Val(k[11][2]) + Val(k[12][2]))
  IN  IF d < 0 THEN 0 - d ELSE d

\* C9: the classifier returns None exactly when the required keypoints are
\* missing or not numeric (nan among them), and squat or pushup only for
\* well-formed numeric keypoints.
C9_UnknownIffMalformed ==
  pc = "detected" => (exercise_loc = None <=> ~WellFormed(kpts))

\* C10: for well-formed keypoints the classifier returns squat if and only
\* if dx < dy, and pushup otherwise, dx = dy included.
C10_SquatIffDxLtDy ==
  pc = "detected" /\ WellFormed(kpts) =>
    /\ exercise_loc = "squat" <=> Dx2(kpts) < Dy2(kpts)
    /\ exercise_loc = "pushup" <=> ~(Dx2(kpts) < Dy2(kpts))

\* Keypoints with dx = dy = 0 have been classified as pushup.
C10_Witness ==
  /\ pc = "detected" /\ WellFormed(kpts)
  /\ Dx2(kpts) = 0 /\ Dy2(kpts) = 0 /\ exercise_loc = "pushup"

\* ---- the registry
\* Entry q of the registry self is the default entry.
IsDefault(self, q) ==
  /\ self.squat_count[q] = 0 /\ self.pushup_count[q] = 0
  /\ self.angle[q] = 0 /\ self.stage[q] = "-" /\ self.exercise[q] = None
\* Entry q is the same before and after the step.
SameEntry(q) ==
  /\ squat_count'[q] = squat_count[q] /\ pushup_count'[q] = pushup_count[q]
  /\ angle'[q] = angle[q] /\ stage'[q] = stage[q]
  /\ exercise'[q] = exercise[q]

\* C11: the first appearance of identity p creates the default entry for p
\* and for every smaller identity without an entry, whether or not the
\* frame's classification succeeds, and leaves the existing entries as they
\* are: initialize_person returns such a registry, and after the iteration
\* the smaller new entries are still the defaults, p's entry is the default
\* one if the classification failed and has no repetition counted if not.
C11_NewIdentityInitialised ==
  [][IterStep /\ ~Known(Cur) =>
       LET s0 == initialize_person(Self, track_ids[i])
           new == (Len(stage) + 1)..Cur
       IN  /\ \A f \in DOMAIN s0 : Len(s0[f]) = Cur
           /\ \A q \in new : IsDefault(s0, q)
           /\ \A q \in 1..Len(stage) :
                /\ s0.squat_count[q] = squat_count[q]
                /\ s0.pushup_count[q] = pushup_count[q]
                /\ s0.angle[q] = angle[q] /\ s0.stage[q] = stage[q]
                /\ s0.exercise[q] = exercise[q]
           /\ \A f \in DOMAIN Self : Len(Self[f]') = Cur
           /\ \A q \in new \ {Cur} : IsDefault(Self', q)
           /\ \A q \in 1..Len(stage) : SameEntry(q)
           /\ exercise_loc' = None => IsDefault(Self', Cur)
           /\ squat_count'[Cur] = 0 /\ pushup_count'[Cur] = 0]_vars

\* Identity 1 has just appeared, classified, in a registry that held
\* nothing: identity 0, never seen, has the default entry.
C11_Witness ==
  /\ AfterIter /\ Last = 2 /\ seen = {1} /\ exercise_loc # None
  /\ Len(stage) = 2 /\ IsDefault(Self, 1) /\ stage[2] = "up"

\* ---- the results of a frame
\* The identities of the frame being processed, or of the last one processed.
FrameIds == {track_ids[n] : n \in DOMAIN track_ids}

C14_CreditToCrossingLabel ==
  [][IterStep /\ Known(Cur) /\ exercise_loc' # None =>
       (stage[Cur] = "up" /\ angle_loc' < down_angle =>
          /\ stage'[Cur] = "down"
          /\ exercise_loc' = "squat" =>
               /\ squat_count'[Cur] = squat_count[Cur] + 1
               /\ pushup_count'[Cur] = pushup_count[Cur]
          /\ exercise_loc' = "pushup" =>
               /\ pushup_count'[Cur] = pushup_count[Cur] + 1
               /\ squat_count'[Cur] = squat_count[Cur])]_vars

\* The last classified frame of the person was a squat above up_angle; this
\* frame, a push-up below down_angle, counted the person's only repetition.
C14_Witness ==
  /\ AfterIter /\ flipped /\ exercise_loc = "pushup"
  /\ pushup_count[Last] = 1 /\ squat_count[Last] = 0
  /\ stage[Last] = "down"

\* ---- the identities of a frame
\* The registry after the frame of the identities a and b, in this order,
\* with the keypoints and the angle of each.
AfterFrame(a, ka, aa, b, kb, ab) ==
  process_iteration(process_iteration(Self, a, ka, aa), b, kb, ab)
\* The angles estimate_pose_angle can return for the keypoints k; it is not
\* called, and 0 stands for its result, when the classification fails.
AnglesFor(k) == IF detect_exercise(k) = None THEN {0} ELSE Angles

\* C15: an iteration on identity p changes no field of the entry of another
\* identity, and at the start of a frame of two identities the registry
\* after the frame is the same for both orders of processing them, whatever
\* the keypoints and angles of the two.  The orders are compared where the
\* frame follows an empty one: an empty frame changes nothing, so every
\* registry that a frame can start from is met there.
C15_NoCrossIdentityInteraction ==
  [][/\ IterStep => \A q \in 1..Len(stage) : q # Cur => SameEntry(q)
     /\ pc = "idle" /\ track_ids = <<>> /\ track_ids' = <<0, 1>> =>
          \A k0 \in FrameKpts, k1 \in FrameKpts :
            \A a0 \in AnglesFor(k0), a1 \in AnglesFor(k1) :
              AfterFrame(0, k0, a0, 1, k1, a1)
                = AfterFrame(1, k1, a1, 0, k0, a0)]_vars

\* A frame of identities 1 and 0, processed in this order, has counted a
\* squat of identity 0 while identity 1, processed first, is at "up".
C15_Witness ==
  /\ pc = "loop" /\ i = 3 /\ track_ids = <<1, 0>>
  /\ exercise_loc = "squat" /\ squat_count[1] = 1 /\ stage[1] = "down"
  /\ stage[2] = "up" /\ exercise[2] = "pushup"

\* C16: every identity observed has its entry in every later state (the
\* lists hold one entry per index): no step removes an entry, changes the
\* entry of an identity it is not processing, or gives an entry that has
\* left the defaults its default values again.
C16_EntryNeverDestroyed ==
  [][/\ \A id \in seen' : id + 1 \in 1..Len(stage')
     /\ \A f \in DOMAIN Self : Len(Self[f]') >= Len(Self[f])
     /\ \A q \in 1..Len(stage) :
          /\ ~(IterStep /\ q = Cur) => SameEntry(q)
          /\ ~IsDefault(Self, q) => ~IsDefault(Self', q)]_vars

\* Identity 1 has counted a squat; a later frame holds identity 0 only, with
\* a successful classification.
C16_Witness ==
  /\ AfterIter /\ track_ids = <<0>> /\ seen = {0, 1}
  /\ squat_count[2] = 1 /\ stage[2] = "down" /\ exercise[2] = "squat"
  /\ exercise_loc # None /\ exercise[1] # None

\* C17: an iteration with a successful classification stores the detected
\* exercise and the computed angle in the entry of its identity; one with a
\* failed classification leaves both as they were (None and 0 in a new
\* entry); no other step changes them; an exercise that is not None never
\* becomes None, and the angle of an entry without exercise is 0.
C17_ExerciseAndAngleAreLastClassified ==
  [][/\ IterStep /\ exercise_loc' # None =>
          exercise'[Cur] = exercise_loc' /\ angle'[Cur] = angle_loc'
     /\ IterStep /\ exercise_loc' = None =>
          /\ exercise'[Cur] = (IF Known(Cur) THEN exercise[Cur] ELSE None)
          /\ angle'[Cur] = (IF Known(Cur) THEN angle[Cur] ELSE 0)
     /\ \A q \in 1..Len(stage) :
          /\ ~(IterStep /\ q = Cur) =>
               exercise'[q] = exercise[q] /\ angle'[q] = angle[q]
          /\ exercise[q] # None => exercise'[q] # None
     /\ \A q \in 1..Len(stage') : exercise'[q] = None => angle'[q] = 0]_vars

\* The frame of identity 1 could not be classified: its entry keeps the
\* squat and the angle of its last classified frame, and identity 0, never
\* classified, has no exercise and angle 0.
C17_Witness ==
  /\ AfterIter /\ Last = 2 /\ exercise_loc = None
  /\ exercise[2] = "squat" /\ angle[2] = 170
  /\ exercise[1] = None /\ angle[1] = 0

\* ---- the thresholds
\* C18 as stated: in every state down_angle < up_angle, so that no angle is
\* both below down_angle and above up_angle.
C18_DownBelowUp ==
  /\ down_angle < up_angle
  /\ \A a \in Angles : ~(a < down_angle /\ a > up_angle)

\* ---- the shape of the registry
\* The largest identity of a non-empty set of identities.
Largest(ids) == CHOOSE m \in ids : \A id \in ids : id <= m

\* C19: in every state the five lists have the same length, which is 0
\* before any identity is observed and 1 + the largest identity observed
\* afterwards, so the index of every observed identity is in range; and no
\* step makes the lists shorter.
C19_RegistryShape ==
  /\ [](/\ \A f \in DOMAIN Self : Len(Self[f]) = Len(squat_count)
        /\ Len(squat_count) = IF seen = {} THEN 0 ELSE 1 + Largest(seen)
        /\ \A id \in seen : \A f \in DOMAIN Self : id + 1 \in DOMAIN Self[f])
  /\ [][Len(squat_count') >= Len(squat_count)]_vars

\* Identity 1 is the only identity observed, in a frame processed to its
\* end: the lists hold two entries.
C19_Witness ==
  /\ pc = "idle" /\ seen = {1} /\ track_ids = <<1>>
  /\ \A f \in DOMAIN Self : Len(Self[f]) = 2

\* ---- the neutral stage
\* The angle a is within [down_angle, up_angle].
InBand(a) == ~(a < down_angle) /\ ~(a > up_angle)

\* C20: in every state an identity whose stage is "-" has both counters at
\* 0; and an iteration that classifies the frame of an identity at "-"
\* with an angle within [down_angle, up_angle] leaves it at "-".
C20_NeutralHasNoCount ==
  /\ [](\A p \in 1..Len(stage) :
          stage[p] = "-" => squat_count[p] = 0 /\ pushup_count[p] = 0)
  /\ [][IterStep /\ exercise_loc' # None =>
          (StageOf(Cur) = "-" /\ InBand(angle_loc') => stage'[Cur] = "-")]_vars

\* Identity 0 has been classified, at an angle within the band, and is
\* still at "-" without a count, while identity 1 has counted a push-up.
C20_Witness ==
  /\ Len(stage) = 2 /\ stage[1] = "-" /\ exercise[1] = "squat"
  /\ angle[1] = 120 /\ InBand(angle[1])
  /\ squat_count[1] = 0 /\ pushup_count[1] = 0
  /\ pushup_count[2] = 1 /\ stage[2] = "down"

=============================================================================
